---- MODULE Spec2Model ----
(***************************************************************************)
(* drm-fourcc: DrmFormat <-> u32 conversion, the fourcc string form and    *)
(* the UnrecognizedFourcc error value (src/src/lib.rs).                    *)
(*                                                                         *)
(* The library is a set of pure functions.  The state machine is a caller  *)
(* holding one value: it starts from an input (a u32 or a DrmFormat),      *)
(* and every action applies one operation of the library to the value in   *)
(* hand.  Strings are sequences of Unicode code points.                    *)
(***************************************************************************)
EXTENDS Integers, Sequences, FiniteSets

VARIABLES
    origin,   \* the input the caller started from
    calls,    \* the operations applied so far, in order
    arg,      \* the value the last operation was applied to
    val       \* the value in hand: the input, then the last operation's result

vars == <<origin, calls, arg, val>>

(***************************************************************************)
(* Bounds of the model.                                                    *)
(***************************************************************************)
\* how many of SampleBytes are used to build the u32 inputs
NumSampleBytes == 13
\* how many operations the caller chains
MaxCalls == 2

(***************************************************************************)
(* Numbers that appear in the source.                                      *)
(***************************************************************************)
DRM_FOURCC_XRGB8888 == 875713112
DRM_FOURCC_BGR888 == 875710274
DRM_FOURCC_AYUV == 1448433985
FOURCC_AVC1 == 828601953
FOURCC_VC1 == 3236726
FortyTwo == 42

(***************************************************************************)
(* A u32 is held as two 16-bit limbs <<high, low>>: TLC's integers stop   *)
(* at 2^31 - 1.  u32(n) is the u32 of a literal n < 2^31.                  *)
(***************************************************************************)
u32(n) == <<n \div 65536, n % 65536>>

U32Max == <<65535, 65535>>

Zero == <<0, 0>>

(***************************************************************************)
(* Values the caller can hold.                                             *)
(***************************************************************************)
V(kind, num, variant, chars, msg) ==
    [kind |-> kind, num |-> num, variant |-> variant, chars |-> chars, msg |-> msg]

U32(v) == V("u32", v, "", <<>>, "")
Format(f) == V("DrmFormat", Zero, f, <<>>, "")
Ok(f) == V("Ok", Zero, f, <<>>, "")
UnrecognizedFourcc(v) == V("UnrecognizedFourcc", v, "", <<>>, "")
Err(e) == V("Err", e.num, "", <<>>, "")
Some(s) == V("Some", Zero, "", s, "")
None == V("None", Zero, "", <<>>, "")
String(s) == V("String", Zero, "", s, "")
Panic(m) == V("panic", Zero, "", <<>>, m)

(***************************************************************************)
(* The generated enum (mod as_enum): variants, `f as u32`, from_u32.       *)
(***************************************************************************)
DrmFormat == {"Xrgb8888", "Bgr888", "Ayuv"}

as_u32(f) ==
    CASE f = "Xrgb8888" -> u32(DRM_FOURCC_XRGB8888)
      [] f = "Bgr888" -> u32(DRM_FOURCC_BGR888)
      [] f = "Ayuv" -> u32(DRM_FOURCC_AYUV)

\* Option<DrmFormat>: Some is a DrmFormat value, None is None
from_u32(value) ==
    IF \E f \in DrmFormat : as_u32(f) = value
    THEN Format(CHOOSE f \in DrmFormat : as_u32(f) = value)
    ELSE None

(***************************************************************************)
(* u32::to_le_bytes                                                        *)
(***************************************************************************)
to_le_bytes(x) ==
    << x[2] % 256, x[2] \div 256, x[1] % 256, x[1] \div 256 >>

from_le_bytes(b) == << b[3] + 256 * b[4], b[1] + 256 * b[2] >>

(***************************************************************************)
(* String::from_utf8 followed by str::chars: the code points of a byte     *)
(* sequence, or "invalid".                                                 *)
(***************************************************************************)
IsCont(b) == b >= 128 /\ b <= 191

\* width of the character a lead byte starts, 0 for a byte that starts none
Utf8Width(b) ==
    IF b < 128 THEN 1
    ELSE IF b >= 194 /\ b <= 223 THEN 2
    ELSE IF b >= 224 /\ b <= 239 THEN 3
    ELSE IF b >= 240 /\ b <= 244 THEN 4
    ELSE 0

\* the second byte of a 3- or 4-byte character has a range that depends on the lead
SecondOk(lead, b) ==
    CASE lead = 224 -> b >= 160 /\ b <= 191
      [] lead = 237 -> b >= 128 /\ b <= 159
      [] lead = 240 -> b >= 144 /\ b <= 191
      [] lead = 244 -> b >= 128 /\ b <= 143
      [] OTHER -> IsCont(b)

RECURSIVE Utf8Valid(_)
Utf8Valid(bs) ==
    IF bs = <<>> THEN TRUE
    ELSE LET w == Utf8Width(bs[1]) IN
         /\ w > 0
         /\ Len(bs) >= w
         /\ (w >= 2 => SecondOk(bs[1], bs[2]))
         /\ (w >= 3 => IsCont(bs[3]))
         /\ (w >= 4 => IsCont(bs[4]))
         /\ Utf8Valid(SubSeq(bs, w + 1, Len(bs)))

\* the code point of the character at the head of a valid sequence
CodePoint(bs) ==
    LET w == Utf8Width(bs[1]) IN
    CASE w = 1 -> bs[1]
      [] w = 2 -> (bs[1] % 32) * 64 + (bs[2] % 64)
      [] w = 3 -> (bs[1] % 16) * 4096 + (bs[2] % 64) * 64 + (bs[3] % 64)
      [] w = 4 -> (bs[1] % 8) * 262144 + (bs[2] % 64) * 4096
                  + (bs[3] % 64) * 64 + (bs[4] % 64)

RECURSIVE Chars(_)
Chars(bs) ==
    IF bs = <<>> THEN <<>>
    ELSE <<CodePoint(bs)>> \o Chars(SubSeq(bs, Utf8Width(bs[1]) + 1, Len(bs)))

(***************************************************************************)
(* char::is_ascii_alphanumeric                                             *)
(***************************************************************************)
is_ascii_alphanumeric(c) ==
    \/ c >= 48 /\ c <= 57
    \/ c >= 65 /\ c <= 90
    \/ c >= 97 /\ c <= 122

(***************************************************************************)
(* fourcc_string_form.  A panic of the function (chars.split_at(3) with    *)
(* fewer than 3 chars, last_chars[0] on an empty slice) is the outcome     *)
(* Panic(..).                                                              *)
(***************************************************************************)
\* the loop over `start`: the chars pushed so far, cut at the first char
\* that is not alphanumeric (the early `return None`)
RECURSIVE PushStart(_)
PushStart(start) ==
    IF start = <<>> THEN <<>>
    ELSE IF is_ascii_alphanumeric(Head(start))
         THEN <<Head(start)>> \o PushStart(Tail(start))
         ELSE <<>>

\* mutant: the bytes taken in big-endian order
fourcc_string_form_be(fourcc) ==
    LET le == to_le_bytes(fourcc)
        bytes == <<le[4], le[3], le[2], le[1]>>
    IN  IF ~Utf8Valid(bytes) THEN None
        ELSE LET chars == Chars(bytes) IN
             IF Len(chars) < 3 THEN Panic("split_at: mid > len")
             ELSE IF Len(chars) = 3 THEN Panic("index out of bounds")
             ELSE LET start == SubSeq(chars, 1, 3)
                      last == chars[4]
                      out == PushStart(start)
                  IN  IF Len(out) < 3 THEN None
                      ELSE IF last = 0 THEN Some(out \o <<32>>)
                      ELSE Some(out \o <<last>>)

\* mutant: a null last byte is pushed as it is
fourcc_string_form_nul(fourcc) ==
    LET bytes == to_le_bytes(fourcc)
    IN  IF ~Utf8Valid(bytes) THEN None
        ELSE LET chars == Chars(bytes) IN
             IF Len(chars) < 3 THEN Panic("split_at: mid > len")
             ELSE IF Len(chars) = 3 THEN Panic("index out of bounds")
             ELSE LET start == SubSeq(chars, 1, 3)
                      last == chars[4]
                      out == PushStart(start)
                  IN  IF Len(out) < 3 THEN None
                      ELSE Some(out \o <<last>>)

fourcc_string_form(fourcc) ==
    LET bytes == to_le_bytes(fourcc)
    IN  IF ~Utf8Valid(bytes) THEN None
        ELSE LET chars == Chars(bytes) IN
             IF Len(chars) < 3 THEN Panic("split_at: mid > len")
             ELSE IF Len(chars) = 3 THEN Panic("index out of bounds")
             ELSE LET start == SubSeq(chars, 1, 3)
                      last == chars[4]
                      out == PushStart(start)
                  IN  IF Len(out) < 3 THEN None
                      ELSE IF last = 0 THEN Some(out \o <<32>>)
                      ELSE Some(out \o <<last>>)

(***************************************************************************)
(* DrmFormat::string_form                                                  *)
(***************************************************************************)
string_form(f) ==
    LET r == fourcc_string_form(as_u32(f)) IN
    CASE r.kind = "Some" -> String(r.chars)
      [] r.kind = "None" -> Panic("Must be valid fourcc")
      [] OTHER -> r

(***************************************************************************)
(* impl TryFrom<u32> for DrmFormat                                         *)
(***************************************************************************)
\* mutant: the value looked up with its bytes swapped
try_from_swapped(value) ==
    LET b == to_le_bytes(value)
        r == from_u32(from_le_bytes(<<b[4], b[3], b[2], b[1]>>))
    IN  IF r.kind = "DrmFormat" THEN Ok(r.variant)
        ELSE Err(UnrecognizedFourcc(value))

\* mutant: the error does not carry the value
try_from_zero(value) ==
    LET r == from_u32(value)
    IN  IF r.kind = "DrmFormat" THEN Ok(r.variant)
        ELSE Err(UnrecognizedFourcc(Zero))

try_from(value) ==
    LET r == from_u32(value)
    IN  IF r.kind = "DrmFormat" THEN Ok(r.variant)
        ELSE Err(UnrecognizedFourcc(value))

(***************************************************************************)
(* UnrecognizedFourcc::string_form                                         *)
(***************************************************************************)
unrecognized_string_form(self) == fourcc_string_form(self.num)

(***************************************************************************)
(* Debug / Display of UnrecognizedFourcc, as `{}` and `{:?}` write it.     *)
(***************************************************************************)
\* a u32 divided by 10, and the remainder (long division over the limbs)
Div10(n) ==
    LET mid == (n[1] % 10) * 65536 + n[2] IN <<n[1] \div 10, mid \div 10>>

Mod10(n) == ((n[1] % 10) * 65536 + n[2]) % 10

\* the decimal digits of a u32 (Debug of u32)
RECURSIVE Decimal(_)
Decimal(n) ==
    IF n[1] = 0 /\ n[2] < 10 THEN <<48 + n[2]>>
    ELSE Decimal(Div10(n)) \o <<48 + Mod10(n)>>

HexDigit(d) == IF d < 10 THEN 48 + d ELSE 97 + (d - 10)

RECURSIVE Hex(_)
Hex(n) ==
    IF n < 16 THEN <<HexDigit(n)>>
    ELSE Hex(n \div 16) \o <<HexDigit(n % 16)>>

\* char::escape_debug on an ASCII char: \t \r \n \' \" \\ get a backslash,
\* the other control characters are written \u{hex}  (the toolchains that
\* accept #![feature(try_trait)] escape the single quote in a str too)
EscapeDebug(c) ==
    CASE c = 9 -> <<92, 116>>
      [] c = 13 -> <<92, 114>>
      [] c = 10 -> <<92, 110>>
      [] c = 39 -> <<92, 39>>
      [] c = 34 -> <<92, 34>>
      [] c = 92 -> <<92, 92>>
      [] c < 32 \/ c = 127 -> <<92, 117, 123>> \o Hex(c) \o <<125>>
      [] OTHER -> <<c>>

RECURSIVE EscapeAll(_)
EscapeAll(s) ==
    IF s = <<>> THEN <<>> ELSE EscapeDebug(Head(s)) \o EscapeAll(Tail(s))

\* Debug of a String: the escaped chars between double quotes
DebugString(s) == <<34>> \o EscapeAll(s) \o <<34>>

\* "UnrecognizedFourcc"
TupleName == <<85, 110, 114, 101, 99, 111, 103, 110, 105, 122, 101, 100, 70, 111, 117, 114, 99, 99>>

unrecognized_fmt(self) ==
    LET sf == unrecognized_string_form(self) IN
    CASE sf.kind = "Some" ->
           String(TupleName \o <<40>> \o DebugString(sf.chars) \o <<44, 32>>
                  \o Decimal(self.num) \o <<41>>)
      [] sf.kind = "None" ->
           String(TupleName \o <<40>> \o Decimal(self.num) \o <<41>>)
      [] OTHER -> sf

(***************************************************************************)
(* Inputs: every u32 whose four bytes are among the first NumSampleBytes   *)
(* of SampleBytes (null, space, a quote, a digit, letters, DEL,            *)
(* continuation bytes, 2-, 3- and 4-byte leads, 0xFF, ...), and the        *)
(* values the source names.                                                *)
(***************************************************************************)
SampleBytes ==
    <<0, 32, 34, 49, 65, 122, 127, 128, 169, 195, 226, 240, 255, 92, 10, 237, 57, 47>>

Min(a, b) == IF a < b THEN a ELSE b

Bytes == {SampleBytes[i] : i \in 1..Min(NumSampleBytes, Len(SampleBytes))}

NamedInputs ==
    {Zero, U32Max} \cup
    {u32(n) : n \in {FortyTwo, DRM_FOURCC_XRGB8888, DRM_FOURCC_BGR888, DRM_FOURCC_AYUV,
                     FOURCC_AVC1, FOURCC_VC1}}

Inputs ==
    {from_le_bytes(<<b1, b2, b3, b4>>) : b1 \in Bytes, b2 \in Bytes, b3 \in Bytes, b4 \in Bytes}
    \cup NamedInputs

(***************************************************************************)
(* The caller.                                                             *)
(***************************************************************************)
Init ==
    /\ origin \in {U32(v) : v \in Inputs} \cup {Format(f) : f \in DrmFormat}
    /\ calls = <<>>
    /\ arg = origin
    /\ val = origin

Call(name, result) ==
    /\ Len(calls) < MaxCalls
    /\ calls' = Append(calls, name)
    /\ arg' = val
    /\ val' = result
    /\ UNCHANGED origin

\* DrmFormat::try_from(value)
TryFrom ==
    /\ val.kind = "u32"
    /\ Call("try_from", try_from(val.num))

\* format as u32
AsU32 ==
    /\ val.kind \in {"DrmFormat", "Ok"}
    /\ Call("as_u32", U32(as_u32(val.variant)))

\* format.string_form()
StringForm ==
    /\ val.kind \in {"DrmFormat", "Ok"}
    /\ Call("string_form", string_form(val.variant))

\* fourcc_string_form(value)
FourccStringForm ==
    /\ val.kind = "u32"
    /\ Call("fourcc_string_form", fourcc_string_form(val.num))

\* UnrecognizedFourcc(value)
NewUnrecognized ==
    /\ val.kind = "u32"
    /\ Call("UnrecognizedFourcc", UnrecognizedFourcc(val.num))

\* unrecognized.string_form()
UnrecognizedStringForm ==
    /\ val.kind \in {"UnrecognizedFourcc", "Err"}
    /\ Call("unrecognized_string_form", unrecognized_string_form(val))

\* format!("{}", unrecognized)
UnrecognizedFmt ==
    /\ val.kind \in {"UnrecognizedFourcc", "Err"}
    /\ Call("unrecognized_fmt", unrecognized_fmt(val))

Next ==
    \/ TryFrom
    \/ AsU32
    \/ StringForm
    \/ FourccStringForm
    \/ NewUnrecognized
    \/ UnrecognizedStringForm
    \/ UnrecognizedFmt

Spec == Init /\ [][Next]_vars

(***************************************************************************)
(* Properties.                                                             *)
(***************************************************************************)
\* the operation applied last, "" before the first
Last == IF calls = <<>> THEN "" ELSE calls[Len(calls)]

\* the four little-endian bytes of the u32 the last operation was applied to
ArgBytes == to_le_bytes(arg.num)

FirstThreeAlnum(b) ==
    is_ascii_alphanumeric(b[1]) /\ is_ascii_alphanumeric(b[2]) /\ is_ascii_alphanumeric(b[3])

\* the four bytes as a string, a null 4th byte written as a space
Padded(b) == <<b[1], b[2], b[3], IF b[4] = 0 THEN 32 ELSE b[4]>>

XR24 == <<88, 82, 50, 52>>
AVC1 == <<97, 118, 99, 49>>
VC1_ == <<118, 99, 49, 32>>

TableValues == {as_u32(f) : f \in DrmFormat}

\* C1: fourcc_string_form returns None for every value whose first 3
\* little-endian bytes are not all ASCII alphanumeric, and for every value
\* whose 4th byte is neither ASCII alphanumeric nor null.  (Stated of the
\* calls that return: the calls that abort are C10's.)
C1_RejectsInvalid ==
    (/\ Last = "fourcc_string_form"
     /\ val.kind # "panic"
     /\ \/ ~FirstThreeAlnum(ArgBytes)
        \/ ~(is_ascii_alphanumeric(ArgBytes[4]) \/ ArgBytes[4] = 0))
    => val = None

C4_DecodeTotal ==
    Last = "try_from" =>
        /\ \/ val.kind = "Ok" /\ val.variant \in DrmFormat /\ as_u32(val.variant) = arg.num
           \/ val.kind = "Err" /\ val.num = arg.num /\ arg.num \notin TableValues
        /\ (arg.num = Zero => val.kind = "Err" /\ val.num = Zero)
        /\ (arg.num = U32Max => val.kind \in {"Ok", "Err"})

C4_Witness ==
    /\ calls = <<"try_from">>
    /\ origin = U32(u32(FOURCC_AVC1))
    /\ val.kind = "Err"
    /\ val.num = u32(FOURCC_AVC1)

\* C5: for every value whose first 3 little-endian bytes are ASCII
\* alphanumeric and whose 4th is ASCII alphanumeric or null,
\* fourcc_string_form returns Some of the 4 bytes as characters, lowest byte
\* first, a null 4th byte written as a space: 0x316376 -> "vc1 ",
\* 875713112 -> "XR24", 828601953 -> "avc1".
C5_RendersValid ==
    Last = "fourcc_string_form" =>
        /\ (/\ FirstThreeAlnum(ArgBytes)
            /\ (is_ascii_alphanumeric(ArgBytes[4]) \/ ArgBytes[4] = 0))
           => val = Some(Padded(ArgBytes))
        /\ (arg.num = u32(FOURCC_VC1) => val = Some(VC1_))
        /\ (arg.num = u32(DRM_FOURCC_XRGB8888) => val = Some(XR24))
        /\ (arg.num = u32(FOURCC_AVC1) => val = Some(AVC1))

C5_Witness ==
    /\ calls = <<"fourcc_string_form">>
    /\ origin = U32(u32(FOURCC_VC1))
    /\ val = Some(VC1_)

\* C6: for every u32 v the text of UnrecognizedFourcc(v) is
\* UnrecognizedFourcc("s", v) when fourcc_string_form(v) is Some(s), and
\* UnrecognizedFourcc(v) when it is None.
C6_DisplayText ==
    Last = "unrecognized_fmt" =>
        LET sf == fourcc_string_form(arg.num) IN
        \/ /\ sf.kind = "Some"
           /\ val = String(TupleName \o <<40, 34>> \o sf.chars \o <<34, 44, 32>>
                           \o Decimal(arg.num) \o <<41>>)
        \/ /\ sf.kind = "None"
           /\ val = String(TupleName \o <<40>> \o Decimal(arg.num) \o <<41>>)

C8_FourAscii ==
    (Last \in {"fourcc_string_form", "unrecognized_string_form"} /\ val.kind = "Some")
    => /\ Len(val.chars) = 4
       /\ \A i \in 1..Len(val.chars) : val.chars[i] < 128
       /\ (val.chars[4] = 32 => ArgBytes[4] = 0)

\* C10: fourcc_string_form never aborts: when the 4 little-endian bytes are
\* not 4 characters (invalid UTF-8, or valid UTF-8 holding a multi-byte
\* character) it returns None.
C10_NeverAborts ==
    Last = "fourcc_string_form" =>
        /\ val.kind \in {"Some", "None"}
        /\ (\E i \in 1..4 : ArgBytes[i] >= 128) => val = None

====
